---- MODULE Spec2Model ----
(***************************************************************************)
(* Model of run() of the Quant Cloud init action, latest variant           *)
(* (src/unnamed/part_000 lines 766-1164), and of the variant of            *)
(* src/src/index.ts, whose definitions end in Index.                       *)
(*                                                                         *)
(* JavaScript strings that the code inspects character by character (the   *)
(* ref, branch names, overrides, the repository, the registry endpoint)    *)
(* are sequences of one-character strings.  Log and failure messages are   *)
(* never inspected by the code and are TLA+ strings or tuples.             *)
(*                                                                         *)
(* run() is one async function: an action is the code executed between two *)
(* consecutive awaits.                                                     *)
(***************************************************************************)
EXTENDS Integers, Sequences, FiniteSets, TLC

\* ------------------------------------------------------------------ bounds
\* longest generated tag / branch name of the resolver specification
MaxLen == 2

\* ------------------------------------------------------- character classes
LowerSeq == << "a","b","c","d","e","f","g","h","i","j","k","l","m",
               "n","o","p","q","r","s","t","u","v","w","x","y","z" >>

UpperSeq == << "A","B","C","D","E","F","G","H","I","J","K","L","M",
               "N","O","P","Q","R","S","T","U","V","W","X","Y","Z" >>

Digits == { "0","1","2","3","4","5","6","7","8","9" }

Range(s) == { s[i] : i \in 1..Len(s) }

\* the character class [a-zA-Z0-9]
IsAlnum(c) == c \in Range(LowerSeq) \cup Range(UpperSeq) \cup Digits

\* String.prototype.toLowerCase on one character
ToLowerChar(c) ==
    IF c \in Range(UpperSeq)
    THEN LowerSeq[CHOOSE i \in 1..Len(UpperSeq) : UpperSeq[i] = c]
    ELSE c

\* ------------------------------------------------------- string primitives
StartsWith(s, p) == Len(s) >= Len(p) /\ SubSeq(s, 1, Len(p)) = p

\* index of the first occurrence of p in s, 0 when there is none
IndexOf(s, p) ==
    LET hits == { i \in 1..(Len(s) - Len(p) + 1) : SubSeq(s, i, i + Len(p) - 1) = p }
    IN  IF hits = {} THEN 0 ELSE CHOOSE i \in hits : \A j \in hits : i <= j

\* s.replace(p, '') with a string pattern: the first occurrence only
RemoveFirst(s, p) ==
    LET i == IndexOf(s, p)
    IN  IF i = 0 THEN s
        ELSE SubSeq(s, 1, i - 1) \o SubSeq(s, i + Len(p), Len(s))

\* s.replace(/[^a-zA-Z0-9]/g, '-').toLowerCase()
SlugStrict(s) ==
    [ i \in 1..Len(s) |-> IF IsAlnum(s[i]) THEN ToLowerChar(s[i]) ELSE "-" ]

\* s.replace(/[^a-zA-Z0-9.]/g, '-').toLowerCase()
SlugDots(s) ==
    [ i \in 1..Len(s) |-> IF IsAlnum(s[i]) \/ s[i] = "." THEN ToLowerChar(s[i]) ELSE "-" ]

\* ------------------------------------------------------------- literals
refsTags  == << "r","e","f","s","/","t","a","g","s","/" >>
refsPull  == << "r","e","f","s","/","p","u","l","l","/" >>
refsHeads == << "r","e","f","s","/","h","e","a","d","s","/" >>
main       == << "m","a","i","n" >>
master     == << "m","a","s","t","e","r" >>
develop    == << "d","e","v","e","l","o","p" >>
production == << "p","r","o","d","u","c","t","i","o","n" >>
latest     == << "l","a","t","e","s","t" >>
featureSlash == << "f","e","a","t","u","r","e","/" >>
prDash     == << "p","r","-" >>
\* the value of a missing (null / undefined) string
Null == << "null" >>

true  == << "t","r","u","e" >>
false == << "f","a","l","s","e" >>
https == << "h","t","t","p","s",":","/","/" >>
http  == << "h","t","t","p",":","/","/" >>

\* JavaScript truthiness of an optional string: neither missing nor ''
Truthy(s) == s # Null /\ s # << >>

\* Boolean.prototype.toString
BoolToString(b) == IF b THEN true ELSE false

\* s.split('/')
RECURSIVE Split(_)
Split(s) ==
    LET i == IndexOf(s, << "/" >>)
    IN  IF i = 0 THEN << s >>
        ELSE << SubSeq(s, 1, i - 1) >> \o Split(SubSeq(s, i + 1, Len(s)))

\* ----------------------------------------------------------- pure helpers
\* a production branch list that ignores the override
isProductionBranchNoOverride(b, masterBranchOverride) == b \in { main, master }

\* a production branch list that always keeps main and master
isProductionBranchKeepDefault(b, masterBranchOverride) ==
    b \in { main, master } \/ (Truthy(masterBranchOverride) /\ b = masterBranchOverride)

isProductionBranch(b, masterBranchOverride) ==
    LET productionBranches ==
            IF Truthy(masterBranchOverride) THEN { masterBranchOverride } ELSE { main, master }
    IN  b \in productionBranches

\* an id extraction that does not ask for the '/' after the digits
extractPullRequestIdNoSlash(ref) ==
    IF StartsWith(ref, refsPull)
    THEN LET rest == SubSeq(ref, Len(refsPull) + 1, Len(ref))
             ns   == { n \in 1..Len(rest) :
                          /\ \A i \in 1..n : rest[i] \in Digits
                          /\ (n = Len(rest) \/ rest[n + 1] \notin Digits) }
         IN  IF ns = {} THEN Null ELSE SubSeq(rest, 1, CHOOSE n \in ns : TRUE)
    ELSE Null

\* ref.match(/^refs\/pull\/(\d+)\//): the digits, or Null
extractPullRequestId(ref) ==
    IF StartsWith(ref, refsPull)
    THEN LET rest == SubSeq(ref, Len(refsPull) + 1, Len(ref))
             \* lengths n of a leading run of digits that a '/' follows
             ns   == { n \in 1..(Len(rest) - 1) :
                          /\ \A i \in 1..n : rest[i] \in Digits
                          /\ rest[n + 1] = "/" }
         IN  IF ns = {} THEN Null ELSE SubSeq(rest, 1, CHOOSE n \in ns : TRUE)
    ELSE Null

\* an environment name that keeps '.' of the branch name
generateEnvironmentNameDots(b, environmentNameOverride, masterBranchOverride, isTagRef, isPrRef, id) ==
    IF Truthy(environmentNameOverride) THEN environmentNameOverride
    ELSE IF isTagRef THEN production
    ELSE IF isPrRef /\ Truthy(id) THEN prDash \o id
    ELSE IF isProductionBranch(b, masterBranchOverride) THEN production
    ELSE IF b = develop THEN develop
    ELSE SlugDots(b)

generateEnvironmentName(b, environmentNameOverride, masterBranchOverride, isTagRef, isPrRef, id) ==
    IF Truthy(environmentNameOverride) THEN environmentNameOverride
    ELSE IF isTagRef THEN production
    ELSE IF isPrRef /\ Truthy(id) THEN prDash \o id
    ELSE IF isProductionBranch(b, masterBranchOverride) THEN production
    ELSE IF b = develop THEN develop
    ELSE IF StartsWith(b, featureSlash) THEN SlugStrict(b)
    ELSE SlugStrict(b)

\* an image suffix that slugs the tag name like a branch name
generateImageSuffixSlugTag(b, masterBranchOverride, isTagRef, isPrRef, id) ==
    IF isTagRef THEN << "-" >> \o SlugDots(b)
    ELSE IF isPrRef /\ Truthy(id) THEN << "-" >> \o prDash \o id
    ELSE IF isProductionBranch(b, masterBranchOverride) THEN << "-" >> \o latest
    ELSE IF b = develop THEN << "-" >> \o develop
    ELSE << "-" >> \o SlugDots(b)

generateImageSuffix(b, masterBranchOverride, isTagRef, isPrRef, id) ==
    IF isTagRef THEN << "-" >> \o b
    ELSE IF isPrRef /\ Truthy(id) THEN << "-" >> \o prDash \o id
    ELSE IF isProductionBranch(b, masterBranchOverride) THEN << "-" >> \o latest
    ELSE IF b = develop THEN << "-" >> \o develop
    ELSE IF StartsWith(b, featureSlash) THEN << "-" >> \o SlugDots(b)
    ELSE << "-" >> \o SlugDots(b)

\* endpoint.replace(/^https?:\/\//, '')
stripProtocol(endpoint) ==
    IF StartsWith(endpoint, https) THEN SubSeq(endpoint, Len(https) + 1, Len(endpoint))
    ELSE IF StartsWith(endpoint, http) THEN SubSeq(endpoint, Len(http) + 1, Len(endpoint))
    ELSE endpoint

\* a replacement that removes up to two leading '-'
stripLeadingDashTwice(s) ==
    IF Len(s) > 1 /\ s[1] = "-" /\ s[2] = "-" THEN SubSeq(s, 3, Len(s))
    ELSE IF Len(s) > 0 /\ s[1] = "-" THEN SubSeq(s, 2, Len(s)) ELSE s

\* imageSuffix.replace(/^-/, '')
stripLeadingDash(s) ==
    IF Len(s) > 0 /\ s[1] = "-" THEN SubSeq(s, 2, Len(s)) ELSE s

\* ------------------------------------------- run(): the synchronous prefix
\* a classification that does not keep the id of a pull-request ref
ClassifyRefDroppingId(ref) ==
    IF StartsWith(ref, refsTags)
    THEN [ ok |-> TRUE, branch |-> RemoveFirst(ref, refsTags),
           isTag |-> TRUE, isPr |-> FALSE, prId |-> Null, error |-> "" ]
    ELSE IF StartsWith(ref, refsPull)
    THEN LET id == extractPullRequestId(ref)
         IN  IF ~Truthy(id)
             THEN [ ok |-> FALSE, branch |-> Null, isTag |-> FALSE, isPr |-> FALSE,
                    prId |-> id, error |-> "Could not extract pull request ID from ref: " ]
             ELSE [ ok |-> TRUE, branch |-> prDash \o id,
                    isTag |-> FALSE, isPr |-> TRUE, prId |-> Null, error |-> "" ]
    ELSE IF StartsWith(ref, refsHeads)
    THEN [ ok |-> TRUE, branch |-> RemoveFirst(ref, refsHeads),
           isTag |-> FALSE, isPr |-> FALSE, prId |-> Null, error |-> "" ]
    ELSE [ ok |-> FALSE, branch |-> Null, isTag |-> FALSE, isPr |-> FALSE,
           prId |-> Null, error |-> "Unknown ref format: " ]

\* the ref classification of run(): branch, isTag, isPr, prId, or a failure
ClassifyRef(ref) ==
    IF StartsWith(ref, refsTags)
    THEN [ ok |-> TRUE, branch |-> RemoveFirst(ref, refsTags),
           isTag |-> TRUE, isPr |-> FALSE, prId |-> Null, error |-> "" ]
    ELSE IF StartsWith(ref, refsPull)
    THEN LET id == extractPullRequestId(ref)
         IN  IF ~Truthy(id)
             THEN [ ok |-> FALSE, branch |-> Null, isTag |-> FALSE, isPr |-> FALSE,
                    prId |-> id, error |-> "Could not extract pull request ID from ref: " ]
             ELSE [ ok |-> TRUE, branch |-> prDash \o id,
                    isTag |-> FALSE, isPr |-> TRUE, prId |-> id, error |-> "" ]
    ELSE IF StartsWith(ref, refsHeads)
    THEN [ ok |-> TRUE, branch |-> RemoveFirst(ref, refsHeads),
           isTag |-> FALSE, isPr |-> FALSE, prId |-> Null, error |-> "" ]
    ELSE [ ok |-> FALSE, branch |-> Null, isTag |-> FALSE, isPr |-> FALSE,
           prId |-> Null, error |-> "Unknown ref format: " ]

\* the application name of run(); split('/')[1] of a value without '/' is undefined
DetermineApplicationName(override, repository) ==
    IF Truthy(override) THEN override
    ELSE LET parts == Split(repository)
         IN  IF Len(parts) >= 2 THEN parts[2] ELSE Null

\* production detection that lets the branch decide even under an override
DetermineIsProductionIgnoringOverride(b, environmentNameOverride, masterBranchOverride, isTagRef) ==
    isProductionBranch(b, masterBranchOverride) \/ isTagRef

\* production detection that looks at the branch name only, tag or not
DetermineIsProductionBranchOnly(b, environmentNameOverride, masterBranchOverride, isTagRef) ==
    IF Truthy(environmentNameOverride) THEN isTagRef
    ELSE isProductionBranch(b, masterBranchOverride)

DetermineIsProduction(b, environmentNameOverride, masterBranchOverride, isTagRef) ==
    IF Truthy(environmentNameOverride) THEN isTagRef
    ELSE isProductionBranch(b, masterBranchOverride) \/ isTagRef

DetermineImageSuffix(b, environmentNameOverride, masterBranchOverride, isTagRef, isPrRef, id) ==
    IF Truthy(environmentNameOverride)
    THEN << "-" >> \o SlugStrict(environmentNameOverride)
    ELSE generateImageSuffix(b, masterBranchOverride, isTagRef, isPrRef, id)

\* ------------------------------------- src/src/index.ts: pure helpers
\* s.replace(/[^a-zA-Z0-9.-]/g, '-').toLowerCase()
SlugIndex(s) ==
    [ i \in 1..Len(s) |-> IF IsAlnum(s[i]) \/ s[i] = "." \/ s[i] = "-"
                          THEN ToLowerChar(s[i]) ELSE "-" ]

feature == << "f","e","a","t","u","r","e" >>

\* index.ts lines 35-54: no tag and no pull-request parameter
generateEnvironmentNameIndex(b, environmentNameOverride, masterBranchOverride) ==
    IF Truthy(environmentNameOverride) THEN environmentNameOverride
    ELSE IF isProductionBranch(b, masterBranchOverride) THEN production
    ELSE IF b = develop THEN develop
    ELSE IF StartsWith(b, featureSlash) THEN feature
    ELSE SlugIndex(b)

\* index.ts lines 59-71
generateImageSuffixIndex(b, masterBranchOverride) ==
    IF isProductionBranch(b, masterBranchOverride) THEN << "-" >> \o latest
    ELSE IF b = develop THEN << "-" >> \o develop
    ELSE << "-" >> \o SlugIndex(b)

\* index.ts lines 132-144: tags and branches only
ClassifyRefIndex(ref) ==
    IF StartsWith(ref, refsTags)
    THEN [ ok |-> TRUE, branch |-> RemoveFirst(ref, refsTags), isTag |-> TRUE ]
    ELSE IF StartsWith(ref, refsHeads)
    THEN [ ok |-> TRUE, branch |-> RemoveFirst(ref, refsHeads), isTag |-> FALSE ]
    ELSE [ ok |-> FALSE, branch |-> Null, isTag |-> FALSE ]

\* ------------------------------------------------------------------ state
VARIABLES
    \* inputs: process.env and core.getInput
    githubRef, githubRepository, applicationOverride, masterBranchOverride,
    environmentNameOverride, skipDockerLoginInput,
    \* position of run(): "start", the pending await, or "done"
    pc,
    \* locals of run()
    branch, isTag, isPr, prId, applicationName, isProduction, environmentName,
    imageSuffix, projectExists, environmentExists,
    endpoint, username, password, hasCredentials,
    \* effects: core.setFailed, core.warning, core.setOutput, and the log of
    \* remote calls and docker invocations with the status each ended with
    failed, warnings, outputs, calls,
    \* the lines of the run log that carry a value of the registry response:
    \* what core.info is given and what exec.exec echoes when not silent
    log

inputs == << githubRef, githubRepository, applicationOverride, masterBranchOverride,
             environmentNameOverride, skipDockerLoginInput >>

resolved == << branch, isTag, isPr, prId, applicationName, isProduction,
               environmentName, imageSuffix >>

credentials == << endpoint, username, password, hasCredentials >>

vars == << inputs, pc, resolved, projectExists, environmentExists, credentials,
           failed, warnings, outputs, calls, log >>

\* --------------------------------------------------------------- input sets
Alphabet == { "a", "B", "1", ".", "/", "-" }

\* every string over Alphabet of length at most n
Strings(n) == UNION { [ 1..k -> Alphabet ] : k \in 0..n }

release      == << "r","e","l","e","a","s","e" >>
pr42         == << "p","r","-","4","2" >>
featureLogin == << "f","e","a","t","u","r","e","/","l","o","g","i","n","-","f","i","x" >>
v120         == << "v","1",".","2",".","0" >>
qaEnv        == << "q","a",".","e","n","v" >>
merge        == << "/","m","e","r","g","e" >>
ownerRepo    == << "o","w","n","e","r","/","r","e","p","o" >>
myApp        == << "m","y","-","a","p","p" >>
organization == << "o","r","g" >>

featureDot  == featureSlash \o << "a",".","b" >>
featureDash == featureSlash \o << "a","-","b" >>

Names == Strings(MaxLen) \cup { main, master, develop, release, pr42, featureLogin, v120,
                                production, featureDot, featureDash }

PullRefs == { refsPull \o << "4","2" >> \o merge,
              refsPull \o << "7" >> \o merge,
              refsPull \o << "4","2" >>,
              refsPull \o << "x" >> \o merge,
              refsPull \o merge,
              refsPull \o << "4","a" >> \o merge }

BadRefs == { Null, << >>, main, << "r","e","f","s","/" >> \o main }

ResolverRefs == { refsTags \o n : n \in Names } \cup { refsHeads \o n : n \in Names }
                    \cup PullRefs \cup BadRefs

MasterBranchOverrides == { << >>, main, release, pr42, develop, << "a" >> }

EnvironmentNameOverrides == { << >>, qaEnv, production, << "Q","/","a" >> }

RunRefs == { refsHeads \o main, refsHeads \o << "B",".","/" >>, refsTags \o v120,
             refsPull \o << "4","2" >> \o merge, refsPull \o merge, << >>,
             refsPull \o << "4","2" >>, refsPull \o << "4","a" >> \o merge, main, Null }

\* ------------------------------------------------------------------- Init
InitLocals ==
    /\ pc = "start"
    /\ branch = Null /\ isTag = FALSE /\ isPr = FALSE /\ prId = Null
    /\ applicationName = Null /\ isProduction = FALSE
    /\ environmentName = Null /\ imageSuffix = Null
    /\ projectExists = FALSE /\ environmentExists = FALSE
    /\ endpoint = << >> /\ username = << >> /\ password = << >> /\ hasCredentials = FALSE
    /\ failed = << >> /\ warnings = << >> /\ outputs = << >> /\ calls = << >>
    /\ log = << >>

\* the inputs of the resolver specification: every ref, every override
InitResolver ==
    /\ githubRef \in ResolverRefs
    /\ masterBranchOverride \in MasterBranchOverrides
    /\ environmentNameOverride \in EnvironmentNameOverrides
    /\ githubRepository = ownerRepo
    /\ applicationOverride = << >>
    /\ skipDockerLoginInput = false
    /\ InitLocals

\* the inputs of the run specification
Init ==
    /\ githubRef \in RunRefs
    /\ masterBranchOverride \in { << >>, release }
    /\ environmentNameOverride \in { << >>, qaEnv }
    /\ githubRepository \in { ownerRepo, Null, << >> }
    /\ applicationOverride \in { << >>, myApp }
    /\ skipDockerLoginInput \in { true, false }
    /\ InitLocals

\* ---------------------------------------------------------------- effects
setFailed(text, arg) == failed' = Append(failed, [ text |-> text, arg |-> arg ])

warning(text, arg) == warnings' = Append(warnings, [ text |-> text, arg |-> arg ])

\* the response data of a call that carries none
NoData == [ present |-> FALSE, endpoint |-> Null, username |-> Null, password |-> Null ]

\* a call that has not returned yet: status -1
Pending(op, args) ==
    [ op |-> op, args |-> args, status |-> -1, data |-> NoData, body |-> Null ]

\* the log once its pending call has ended with outcome r
Ended(r) ==
    [ calls EXCEPT ![Len(calls)].status = r.status,
                   ![Len(calls)].data = r.data,
                   ![Len(calls)].body = r.body ]

\* start a remote call: it is logged pending until it returns
Invoke(op, args) == calls' = Append(calls, Pending(op, args))

\* the pending call ends with outcome r, and the next call op starts
ReturnAndInvoke(r, op, args) == calls' = Append(Ended(r), Pending(op, args))

\* the pending call ends with outcome r
Return(r) == calls' = Ended(r)

\* ------------------------------------------------------------- run: start
\* lines 926-1027: read the inputs, classify the ref, resolve the target and
\* call listApplications
RunStart ==
    /\ pc = "start"
    /\ UNCHANGED << inputs, log, projectExists, environmentExists, credentials, warnings, outputs >>
    /\ IF ~Truthy(githubRef) \/ ~Truthy(githubRepository)
       THEN /\ setFailed("GitHub context not available. This action must run in a GitHub Actions workflow.", << >>)
            /\ pc' = "done"
            /\ UNCHANGED << resolved, calls >>
       ELSE LET c == ClassifyRef(githubRef)
            IN  IF ~c.ok
                THEN /\ setFailed(c.error, githubRef)
                     /\ pc' = "done"
                     /\ prId' = c.prId
                     /\ UNCHANGED << branch, isTag, isPr, applicationName, isProduction,
                                     environmentName, imageSuffix, calls >>
                ELSE /\ branch' = c.branch
                     /\ isTag' = c.isTag
                     /\ isPr' = c.isPr
                     /\ prId' = c.prId
                     /\ applicationName' = DetermineApplicationName(applicationOverride, githubRepository)
                     /\ isProduction' = DetermineIsProduction(c.branch, environmentNameOverride,
                                                              masterBranchOverride, c.isTag)
                     /\ environmentName' = generateEnvironmentName(c.branch, environmentNameOverride,
                                               masterBranchOverride, c.isTag, c.isPr, c.prId)
                     /\ imageSuffix' = DetermineImageSuffix(c.branch, environmentNameOverride,
                                               masterBranchOverride, c.isTag, c.isPr, c.prId)
                     /\ Invoke("listApplications", << organization >>)
                     /\ pc' = "listApplications"
                     /\ UNCHANGED failed

\* ------------------------------------------------------- remote outcomes
\* HTTP status of a failed remote call; 0 is a failure without a response
ErrorStatuses == { 0, 400, 401, 403, 404, 422 }

errorMessage == << "E" >>

Data(e, u, p) == [ present |-> TRUE, endpoint |-> e, username |-> u, password |-> p ]

\* an error whose body carries the structured message b (Null: no body message)
FailureWithBody(st, b) ==
    [ ok |-> FALSE, status |-> st, message |-> errorMessage, data |-> NoData, body |-> b ]

Failure(st) == FailureWithBody(st, Null)

Success(d) == [ ok |-> TRUE, status |-> 200, message |-> << >>, data |-> d, body |-> Null ]

bodyMessage == << "M" >>

\* 'Unable to find matching result'
unableToFind == << "U","n","a","b","l","e" >>

\* errors of the remote API that carry a structured body message
BodiedFailures == { FailureWithBody(401, bodyMessage), FailureWithBody(403, unableToFind) }

Failures == { Failure(st) : st \in ErrorStatuses } \cup BodiedFailures

\* outcomes of listApplications, getApplication and getEnvironment
Outcomes == { Success(NoData) } \cup Failures

registry == << "r",".","i","o" >>

\* bodies getEcrLoginCredentials answers with
EcrData == { Data(https \o registry, << "u" >>, << "p" >>),
             Data(https \o registry, << "v" >>, << "q" >>),
             Data(registry, << "u" >>, << "p" >>),
             Data(https \o registry, << "u" >>, Null),
             Data(https \o registry, Null, << "p" >>),
             Data(<< >>, << "u" >>, << "p" >>),
             NoData }

EcrOutcomes == { Success(d) : d \in EcrData } \cup Failures

\* ---------------------------------------------------------- status policy
\* a validation policy that also fails on not-found
IsFatalValidationStatusWith404(st) == st = 422 \/ st = 401 \/ st = 403 \/ st = 404

\* lines 1044-1046
IsFatalValidationStatus(st) == st = 422 \/ st = 401 \/ st = 403

\* an application policy that also fails on not-found
IsFatalApplicationStatusWith404(st) == st = 422 \/ st = 401 \/ st = 403 \/ st = 404

\* an application policy that lets 403 pass
IsFatalApplicationStatusWithout403(st) == st = 422 \/ st = 401

\* lines 1060-1062
IsFatalApplicationStatus(st) == st = 422 \/ st = 401 \/ st = 403

\* ------------------------------------------------- run: validation phase
\* a listApplications handler that treats not-found as an empty organization
ListApplicationsReturnsTolerating404(r) ==
    /\ pc = "listApplications"
    /\ UNCHANGED << inputs, log, resolved, projectExists, environmentExists, credentials,
                    warnings, outputs >>
    /\ IF ~r.ok /\ r.status # 404
       THEN /\ setFailed("Organization does not exist or is not accessible: ", r.message)
            /\ Return(r)
            /\ pc' = "done"
       ELSE /\ ReturnAndInvoke(r, "getEcrLoginCredentials", << organization >>)
            /\ pc' = "ecrValidation"
            /\ UNCHANGED failed

\* lines 1026-1037: listApplications returned or threw
ListApplicationsReturns(r) ==
    /\ pc = "listApplications"
    /\ UNCHANGED << inputs, log, resolved, projectExists, environmentExists, credentials,
                    warnings, outputs >>
    /\ IF ~r.ok
       THEN /\ setFailed("Organization does not exist or is not accessible: ", r.message)
            /\ Return(r)
            /\ pc' = "done"
       ELSE /\ ReturnAndInvoke(r, "getEcrLoginCredentials", << organization >>)
            /\ pc' = "ecrValidation"
            /\ UNCHANGED failed

\* a validation step that asks for the credentials again after a soft failure
EcrValidationReturnsRetrying(r) ==
    /\ pc = "ecrValidation"
    /\ UNCHANGED << inputs, log, resolved, projectExists, environmentExists, credentials, outputs >>
    /\ IF ~r.ok /\ IsFatalValidationStatus(r.status)
       THEN /\ setFailed("Failed to validate organization credentials: ", r.message)
            /\ Return(r)
            /\ pc' = "done"
            /\ UNCHANGED warnings
       ELSE IF ~r.ok
       THEN /\ warning("Could not retrieve ECR credentials during validation: ", r.message)
            /\ ReturnAndInvoke(r, "getEcrLoginCredentials", << organization >>)
            /\ pc' = "ecrValidation"
            /\ UNCHANGED failed
       ELSE /\ IF ~r.data.present \/ ~Truthy(r.data.password)
               THEN warning("No Quant Cloud Image Registry credentials found during validation", << >>)
               ELSE UNCHANGED warnings
            /\ ReturnAndInvoke(r, "getApplication", << organization, applicationName >>)
            /\ pc' = "getApplication"
            /\ UNCHANGED failed

\* lines 1036-1056: the validation call of getEcrLoginCredentials returned or threw
EcrValidationReturns(r) ==
    /\ pc = "ecrValidation"
    /\ UNCHANGED << inputs, log, resolved, projectExists, environmentExists, credentials, outputs >>
    /\ IF ~r.ok /\ IsFatalValidationStatus(r.status)
       THEN /\ setFailed("Failed to validate organization credentials: ", r.message)
            /\ Return(r)
            /\ pc' = "done"
            /\ UNCHANGED warnings
       ELSE /\ IF ~r.ok
               THEN warning("Could not retrieve ECR credentials during validation: ", r.message)
               ELSE IF ~r.data.present \/ ~Truthy(r.data.password)
               THEN warning("No Quant Cloud Image Registry credentials found during validation", << >>)
               ELSE UNCHANGED warnings
            /\ ReturnAndInvoke(r, "getApplication", << organization, applicationName >>)
            /\ pc' = "getApplication"
            /\ UNCHANGED failed

\* lines 1055-1074: getApplication returned or threw
GetApplicationReturns(r) ==
    /\ pc = "getApplication"
    /\ UNCHANGED << inputs, log, resolved, environmentExists, credentials, warnings, outputs >>
    /\ IF ~r.ok /\ IsFatalApplicationStatus(r.status)
       THEN /\ setFailed("Failed to validate application: ", r.message)
            /\ Return(r)
            /\ pc' = "done"
            /\ UNCHANGED projectExists
       ELSE /\ projectExists' = r.ok
            /\ ReturnAndInvoke(r, "getEnvironment",
                               << organization, applicationName, environmentName >>)
            /\ pc' = "getEnvironment"
            /\ UNCHANGED failed

\* a run that starts the login retrieval while getEnvironment is in flight
GetEnvironmentReturnsOverlapping(r) ==
    /\ pc = "getEnvironment"
    /\ UNCHANGED << inputs, log, resolved, projectExists, credentials, warnings, outputs, failed >>
    /\ environmentExists' = r.ok
    /\ Invoke("getEcrLoginCredentials", << organization >>)
    /\ pc' = "ecrLogin"

\* lines 1073-1109: getEnvironment returned or threw
GetEnvironmentReturns(r) ==
    /\ pc = "getEnvironment"
    /\ UNCHANGED << inputs, log, resolved, projectExists, credentials, warnings, outputs, failed >>
    /\ environmentExists' = r.ok
    /\ ReturnAndInvoke(r, "getEcrLoginCredentials", << organization >>)
    /\ pc' = "ecrLogin"

\* ------------------------------------------------------ run: login phase
\* final outputs that leave out the image suffix
FinalOutputsWithoutSuffix ==
    << [ name |-> "project_exists",     value |-> BoolToString(projectExists) ],
       [ name |-> "environment_exists", value |-> BoolToString(environmentExists) ],
       [ name |-> "quant_application",  value |-> applicationName ],
       [ name |-> "environment_name",   value |-> environmentName ],
       [ name |-> "is_production",      value |-> BoolToString(isProduction) ],
       [ name |-> "image_suffix_clean", value |-> stripLeadingDash(imageSuffix) ] >>

\* lines 1143-1149: the seven outputs every successful run ends with
FinalOutputs ==
    << [ name |-> "project_exists",     value |-> BoolToString(projectExists) ],
       [ name |-> "environment_exists", value |-> BoolToString(environmentExists) ],
       [ name |-> "quant_application",  value |-> applicationName ],
       [ name |-> "environment_name",   value |-> environmentName ],
       [ name |-> "is_production",      value |-> BoolToString(isProduction) ],
       [ name |-> "image_suffix",       value |-> imageSuffix ],
       [ name |-> "image_suffix_clean", value |-> stripLeadingDash(imageSuffix) ] >>

\* an endpoint output that also publishes the registry user
EndpointOutputWithUsername(e) ==
    << [ name |-> "stripped_endpoint", value |-> stripProtocol(e) ],
       [ name |-> "registry_username", value |-> username ] >>

\* line 1132
EndpointOutput(e) == << [ name |-> "stripped_endpoint", value |-> stripProtocol(e) ] >>

\* a completeness test that looks at the password only
HasCompleteCredentialsPasswordOnly(r) ==
    r.ok /\ r.data.present /\ Truthy(r.data.password)

\* line 1110: the response carries a password, an endpoint and a username
HasCompleteCredentials(r) ==
    /\ r.ok /\ r.data.present
    /\ Truthy(r.data.password) /\ Truthy(r.data.endpoint) /\ Truthy(r.data.username)

\* a policy that fails without credentials even when login is skipped
MissingCredentialsIsFatalAlways(skipDockerLogin) == TRUE

\* lines 1134-1139: without credentials the run fails unless login is skipped
MissingCredentialsIsFatal(skipDockerLogin) == ~skipDockerLogin

\* a login phase that logs in whenever it has credentials, skip or not
EcrLoginReturnsIgnoringSkip(r) ==
    /\ pc = "ecrLogin"
    /\ UNCHANGED << inputs, log, resolved, projectExists, environmentExists >>
    /\ LET has  == HasCompleteCredentials(r)
           skipDockerLogin == skipDockerLoginInput = true
       IN  /\ hasCredentials' = has
           /\ endpoint' = IF has THEN r.data.endpoint ELSE << >>
           /\ username' = IF has THEN r.data.username ELSE << >>
           /\ password' = IF has THEN r.data.password ELSE << >>
           /\ IF ~r.ok
              THEN warning("Failed to retrieve Quant Cloud Image Registry credentials: ", r.message)
              ELSE UNCHANGED warnings
           /\ IF has
              THEN /\ ReturnAndInvoke(r, "dockerLogin",
                                      << r.data.endpoint, r.data.username, r.data.password >>)
                   /\ pc' = "dockerLogin"
                   /\ UNCHANGED << failed, outputs >>
              ELSE /\ Return(r)
                   /\ pc' = "done"
                   /\ IF has
                      THEN /\ outputs' = outputs \o EndpointOutput(r.data.endpoint) \o FinalOutputs
                           /\ UNCHANGED failed
                      ELSE IF ~MissingCredentialsIsFatal(skipDockerLogin)
                      THEN /\ outputs' = outputs \o FinalOutputs
                           /\ UNCHANGED failed
                      ELSE /\ setFailed("Failed to retrieve Quant Cloud Image Registry credentials and login was not skipped", << >>)
                           /\ UNCHANGED outputs

\* lines 1109-1149: the login call of getEcrLoginCredentials returned or threw
EcrLoginReturns(r) ==
    /\ pc = "ecrLogin"
    /\ UNCHANGED << inputs, log, resolved, projectExists, environmentExists >>
    /\ LET has  == HasCompleteCredentials(r)
           skipDockerLogin == skipDockerLoginInput = true
       IN  /\ hasCredentials' = has
           /\ endpoint' = IF has THEN r.data.endpoint ELSE << >>
           /\ username' = IF has THEN r.data.username ELSE << >>
           /\ password' = IF has THEN r.data.password ELSE << >>
           /\ IF ~r.ok
              THEN warning("Failed to retrieve Quant Cloud Image Registry credentials: ", r.message)
              ELSE UNCHANGED warnings
           /\ IF has /\ ~skipDockerLogin
              THEN /\ ReturnAndInvoke(r, "dockerLogin",
                                      << r.data.endpoint, r.data.username, r.data.password >>)
                   /\ pc' = "dockerLogin"
                   /\ UNCHANGED << failed, outputs >>
              ELSE /\ Return(r)
                   /\ pc' = "done"
                   /\ IF has
                      THEN /\ outputs' = outputs \o EndpointOutput(r.data.endpoint) \o FinalOutputs
                           /\ UNCHANGED failed
                      ELSE IF ~MissingCredentialsIsFatal(skipDockerLogin)
                      THEN /\ outputs' = outputs \o FinalOutputs
                           /\ UNCHANGED failed
                      ELSE /\ setFailed("Failed to retrieve Quant Cloud Image Registry credentials and login was not skipped", << >>)
                           /\ UNCHANGED outputs

\* exit status of the docker login command
DockerExits == { 0, 1 }

\* the outcome of a docker login that exited with code
Exit(code) ==
    [ ok |-> code = 0, status |-> code, message |-> errorMessage, data |-> NoData, body |-> Null ]

\* a login phase that swallows the error of a failed docker login
DockerLoginReturnsSwallowing(code) ==
    /\ pc = "dockerLogin"
    /\ UNCHANGED << inputs, log, resolved, projectExists, environmentExists, credentials, warnings >>
    /\ Return(Exit(code))
    /\ pc' = "done"
    /\ UNCHANGED failed
    /\ IF code = 0
       THEN outputs' = outputs \o EndpointOutput(endpoint) \o FinalOutputs
       ELSE UNCHANGED outputs

\* a login phase that publishes stripped_endpoint whatever docker login did
DockerLoginReturnsEndpointFirst(code) ==
    /\ pc = "dockerLogin"
    /\ UNCHANGED << inputs, log, resolved, projectExists, environmentExists, credentials, warnings >>
    /\ Return(Exit(code))
    /\ pc' = "done"
    /\ IF code = 0
       THEN /\ outputs' = outputs \o EndpointOutput(endpoint) \o FinalOutputs
            /\ UNCHANGED failed
       ELSE /\ setFailed("", errorMessage)
            /\ outputs' = outputs \o EndpointOutput(endpoint)

\* lines 1129-1160: docker login exited; a non-zero exit makes exec.exec throw
DockerLoginReturns(code) ==
    /\ pc = "dockerLogin"
    /\ UNCHANGED << inputs, log, resolved, projectExists, environmentExists, credentials, warnings >>
    /\ Return(Exit(code))
    /\ pc' = "done"
    /\ IF code = 0
       THEN /\ outputs' = outputs \o EndpointOutput(endpoint) \o FinalOutputs
            /\ UNCHANGED failed
       ELSE /\ setFailed("", errorMessage)
            /\ UNCHANGED outputs

Next ==
    \/ RunStart
    \/ \E r \in Outcomes : ListApplicationsReturns(r)
    \/ \E r \in EcrOutcomes : EcrValidationReturns(r)
    \/ \E r \in Outcomes : GetApplicationReturns(r)
    \/ \E r \in Outcomes : GetEnvironmentReturns(r)
    \/ \E r \in EcrOutcomes : EcrLoginReturns(r)
    \/ \E code \in DockerExits : DockerLoginReturns(code)

Spec == Init /\ [][Next]_vars

\* the run under the assumption that the process is scheduled and that every
\* awaited remote call and the docker login command return or throw
SpecFair == Init /\ [][Next]_vars /\ WF_vars(Next)

NextResolver == RunStart

SpecResolver == InitResolver /\ [][NextResolver]_vars

\* ------------------------------------ the whole run over every ref and name
owner      == << "o","w","n","e","r" >>
ownerSlash == << "o","w","n","e","r","/" >>
slashRepo  == << "/","r","e","p","o" >>
nested     == << "a","/","b","/","c" >>

\* values of GITHUB_REPOSITORY: owner/repo, and values of another shape
Repositories == { ownerRepo, owner, ownerSlash, slashRepo, nested }

\* every ref with every override, or every repository value with every
\* application override
InitOutputs ==
    /\ \/ /\ githubRef \in ResolverRefs
          /\ masterBranchOverride \in MasterBranchOverrides
          /\ environmentNameOverride \in EnvironmentNameOverrides
          /\ githubRepository = ownerRepo
          /\ applicationOverride = << >>
       \/ /\ githubRef \in { refsHeads \o main, refsTags \o v120 }
          /\ masterBranchOverride = << >>
          /\ environmentNameOverride = << >>
          /\ githubRepository \in Repositories
          /\ applicationOverride \in { << >>, myApp }
          /\ << githubRepository, applicationOverride >> # << ownerRepo, << >> >>
    /\ skipDockerLoginInput \in { true, false }
    /\ InitLocals

\* the lookups answer, or answer not-found
LookupOutcomes == { Success(NoData), Failure(404) }

\* the credential retrieval answers with complete credentials, or throws
CredentialOutcomes == { Success(Data(https \o registry, << "u" >>, << "p" >>)), Failure(404) }

NextOutputs ==
    \/ RunStart
    \/ \E r \in LookupOutcomes : ListApplicationsReturns(r)
    \/ \E r \in CredentialOutcomes : EcrValidationReturns(r)
    \/ \E r \in LookupOutcomes : GetApplicationReturns(r)
    \/ \E r \in LookupOutcomes : GetEnvironmentReturns(r)
    \/ \E r \in CredentialOutcomes : EcrLoginReturns(r)
    \/ \E code \in DockerExits : DockerLoginReturns(code)

SpecOutputs == InitOutputs /\ [][NextOutputs]_vars

\* ===================================================== src/src/index.ts
\* core.info with a value, or the command line exec.exec echoes
info(text, args) == log' = Append(log, [ text |-> text, args |-> args ])

\* index.ts lines 107-183: read the inputs, classify the ref, resolve the
\* target and call getEcrLoginCredentials as the validation step
RunStartIndex ==
    /\ pc = "start"
    /\ UNCHANGED << inputs, log, isPr, prId, projectExists, environmentExists, credentials,
                    warnings, outputs >>
    /\ IF ~Truthy(githubRef) \/ ~Truthy(githubRepository)
       THEN /\ setFailed("GitHub context not available. This action must run in a GitHub Actions workflow.", << >>)
            /\ pc' = "done"
            /\ UNCHANGED << branch, isTag, applicationName, isProduction, environmentName,
                            imageSuffix, calls >>
       ELSE LET c == ClassifyRefIndex(githubRef)
            IN  IF ~c.ok
                THEN /\ setFailed("Unknown ref format: ", githubRef)
                     /\ pc' = "done"
                     /\ UNCHANGED << branch, isTag, applicationName, isProduction,
                                     environmentName, imageSuffix, calls >>
                ELSE /\ branch' = c.branch
                     /\ isTag' = c.isTag
                     /\ applicationName' = DetermineApplicationName(applicationOverride, githubRepository)
                     /\ isProduction' = isProductionBranch(c.branch, masterBranchOverride)
                     /\ environmentName' = generateEnvironmentNameIndex(c.branch,
                                               environmentNameOverride, masterBranchOverride)
                     /\ imageSuffix' = generateImageSuffixIndex(c.branch, masterBranchOverride)
                     /\ Invoke("getEcrLoginCredentials", << organization >>)
                     /\ pc' = "ecrValidation"
                     /\ UNCHANGED failed

\* index.ts lines 183-227: the validation retrieval returned or threw; the
\* response of this variant carries the credentials in body (r.data here) and
\* a thrown error its structured message in body.message (r.body here)
EcrValidationReturnsIndex(r) ==
    /\ pc = "ecrValidation"
    /\ UNCHANGED << inputs, log, resolved, credentials, warnings, outputs >>
    /\ IF ~r.ok
       THEN /\ IF r.body # Null
               THEN IF r.body = unableToFind
                    THEN setFailed("Either the organization does not exist or you do not have access to it", << >>)
                    ELSE setFailed("", r.body)
               ELSE setFailed("", r.message)
            /\ Return(r)
            /\ pc' = "done"
            /\ UNCHANGED << projectExists, environmentExists >>
       ELSE IF r.data.present /\ Truthy(r.data.password)
       THEN /\ projectExists' = TRUE
            /\ environmentExists' = TRUE
            /\ ReturnAndInvoke(r, "getEcrLoginCredentials", << organization >>)
            /\ pc' = "ecrLogin"
            /\ UNCHANGED failed
       ELSE /\ setFailed("No Quant Cloud Image Registry credentials found - organization may not exist or API key may be invalid", << >>)
            /\ Return(r)
            /\ pc' = "done"
            /\ UNCHANGED << projectExists, environmentExists >>

\* index.ts lines 226-247 and 83-93: the login retrieval returned or threw;
\* with endpoint, username and password dockerLogin logs the endpoint and
\* runs docker login through exec.exec without options, which echoes the
\* command line with its arguments to the run log
EcrLoginReturnsIndex(r) ==
    /\ pc = "ecrLogin"
    /\ UNCHANGED << inputs, resolved, projectExists, environmentExists, hasCredentials,
                    warnings, outputs >>
    /\ IF r.ok /\ r.data.present /\ Truthy(r.data.password)
          /\ Truthy(r.data.endpoint) /\ Truthy(r.data.username)
       THEN /\ endpoint' = r.data.endpoint
            /\ username' = r.data.username
            /\ password' = r.data.password
            /\ log' = log \o << [ text |-> "Logging into Docker registry: ",
                                  args |-> << r.data.endpoint >> ],
                                [ text |-> "[command]docker login --username --password",
                                  args |-> << r.data.endpoint, r.data.username,
                                              r.data.password >> ] >>
            /\ ReturnAndInvoke(r, "dockerLogin",
                               << r.data.endpoint, r.data.username, r.data.password >>)
            /\ pc' = "dockerLogin"
            /\ UNCHANGED failed
       ELSE /\ IF ~r.ok THEN setFailed("", r.message)
               ELSE IF ~r.data.present \/ ~Truthy(r.data.password)
               THEN setFailed("Failed to retrieve Quant Cloud Image Registry credentials", << >>)
               ELSE IF ~Truthy(r.data.endpoint)
               THEN setFailed("No Quant Cloud Image Registry endpoint found", << >>)
               ELSE setFailed("No Quant Cloud Image Registry username found", << >>)
            /\ Return(r)
            /\ pc' = "done"
            /\ UNCHANGED << credentials, log >>

\* index.ts lines 250-255: the six outputs of this variant
FinalOutputsIndex ==
    << [ name |-> "project_exists",     value |-> BoolToString(projectExists) ],
       [ name |-> "environment_exists", value |-> BoolToString(environmentExists) ],
       [ name |-> "quant_application",  value |-> applicationName ],
       [ name |-> "environment_name",   value |-> environmentName ],
       [ name |-> "is_production",      value |-> BoolToString(isProduction) ],
       [ name |-> "stripped_endpoint",  value |-> stripProtocol(endpoint) ] >>

\* index.ts lines 93-99 and 247-274: docker login exited
DockerLoginReturnsIndex(code) ==
    /\ pc = "dockerLogin"
    /\ UNCHANGED << inputs, resolved, projectExists, environmentExists, credentials, warnings >>
    /\ Return(Exit(code))
    /\ pc' = "done"
    /\ IF code = 0
       THEN /\ outputs' = outputs \o FinalOutputsIndex
            /\ info("Registry Endpoint: ", << endpoint >>)
            /\ UNCHANGED failed
       ELSE /\ setFailed("", errorMessage)
            /\ UNCHANGED << outputs, log >>

IndexNames == { << >>, main, master, develop, release, featureLogin, v120, << "B",".","/" >> }

IndexRefs == { refsTags \o n : n \in IndexNames } \cup { refsHeads \o n : n \in IndexNames }
                \cup { refsPull \o << "4","2" >> \o merge, main, << >> }

InitIndex ==
    /\ githubRef \in IndexRefs
    /\ masterBranchOverride \in { << >>, release }
    /\ environmentNameOverride \in { << >>, qaEnv }
    /\ githubRepository = ownerRepo
    /\ applicationOverride = << >>
    /\ skipDockerLoginInput = false
    /\ InitLocals

NextIndex ==
    \/ RunStartIndex
    \/ \E r \in EcrOutcomes : EcrValidationReturnsIndex(r)
    \/ \E r \in EcrOutcomes : EcrLoginReturnsIndex(r)
    \/ \E code \in DockerExits : DockerLoginReturnsIndex(code)

SpecIndex == InitIndex /\ [][NextIndex]_vars

\* ================================================================ claims
\* the run got past its synchronous prefix: the target is resolved and
\* listApplications has been called
Resolved == pc # "start" /\ calls # << >>

NoEnvironmentOverride == environmentNameOverride = << >>

\* the part of the ref after a prefix of length n
After(n) == SubSeq(githubRef, n + 1, Len(githubRef))

\* the ref is 'refs/pull/<n digits>/...'
IsPullRefWithId(n) ==
    /\ StartsWith(githubRef, refsPull)
    /\ n >= 1 /\ Len(githubRef) > Len(refsPull) + n
    /\ \A i \in 1..n : githubRef[Len(refsPull) + i] \in Digits
    /\ githubRef[Len(refsPull) + n + 1] = "/"

IsBranchRef == ~StartsWith(githubRef, refsTags) /\ ~StartsWith(githubRef, refsPull)
                  /\ StartsWith(githubRef, refsHeads)

BranchName == After(Len(refsHeads))

TagName == After(Len(refsTags))

\* the production-branch set the inputs configure
ProductionBranchSet ==
    IF masterBranchOverride = << >> THEN { main, master } ELSE { masterBranchOverride }

\* C1 (as stated): for a pull-request ref 'refs/pull/<digits>/...' without an
\* environment name override, whatever the master branch override, the run
\* computes environment_name 'pr-<id>', image_suffix '-pr-<id>' and
\* is_production false.
C1_PullRequest ==
    \A n \in 1..Len(githubRef) :
        (pc # "start" /\ IsPullRefWithId(n) /\ NoEnvironmentOverride) =>
            LET id == SubSeq(githubRef, Len(refsPull) + 1, Len(refsPull) + n)
            IN  /\ Resolved
                /\ environmentName = prDash \o id
                /\ imageSuffix = << "-" >> \o prDash \o id
                /\ isProduction = FALSE

\* C2: a branch ref whose name is in the production-branch set, without an
\* environment name override, resolves to is_production true, environment
\* 'production' and image suffix '-latest'.
C2_ProductionBranch ==
    (pc # "start" /\ IsBranchRef /\ BranchName \in ProductionBranchSet /\ NoEnvironmentOverride) =>
        /\ Resolved
        /\ isProduction = TRUE
        /\ environmentName = production
        /\ imageSuffix = << "-" >> \o latest

C2_Witness ==
    /\ Resolved /\ IsBranchRef /\ NoEnvironmentOverride
    /\ masterBranchOverride = release /\ BranchName = release
    /\ isProduction /\ environmentName = production

\* C3: a tag ref without an environment name override resolves, whatever the
\* master branch override, to is_production true, environment 'production'
\* and image suffix '-' followed by the tag name verbatim.
C3_Tag ==
    (pc # "start" /\ StartsWith(githubRef, refsTags) /\ NoEnvironmentOverride) =>
        /\ Resolved
        /\ isProduction = TRUE
        /\ environmentName = production
        /\ imageSuffix = << "-" >> \o TagName

C3_Witness ==
    /\ Resolved /\ StartsWith(githubRef, refsTags) /\ NoEnvironmentOverride
    /\ masterBranchOverride # << >>
    /\ "B" \in Range(TagName) /\ "/" \in Range(TagName)
    /\ imageSuffix = << "-" >> \o TagName

C5_NoDotInEnvironmentName ==
    Resolved => "." \notin Range(environmentName)

\* C6: a branch ref whose name is neither in the production-branch set nor
\* 'develop', without an environment name override, resolves to the name
\* slugged over [a-zA-Z0-9] as environment_name and '-' plus the name slugged
\* over [a-zA-Z0-9.] as image_suffix; environment_name is image_suffix without
\* its leading '-' with every '.' turned into '-'.
C6_OtherBranch ==
    (pc # "start" /\ IsBranchRef /\ NoEnvironmentOverride
        /\ BranchName \notin ProductionBranchSet /\ BranchName # develop) =>
        /\ Resolved
        /\ Len(environmentName) = Len(BranchName)
        /\ Len(imageSuffix) = Len(BranchName) + 1
        /\ imageSuffix[1] = "-"
        /\ \A i \in 1..Len(BranchName) :
              /\ environmentName[i] = IF IsAlnum(BranchName[i])
                                      THEN ToLowerChar(BranchName[i]) ELSE "-"
              /\ imageSuffix[i + 1] = IF IsAlnum(BranchName[i]) \/ BranchName[i] = "."
                                      THEN ToLowerChar(BranchName[i]) ELSE "-"
              /\ environmentName[i] = IF imageSuffix[i + 1] = "." THEN "-"
                                      ELSE imageSuffix[i + 1]
        /\ BranchName = featureLogin =>
              /\ environmentName = << "f","e","a","t","u","r","e","-","l","o","g","i","n","-","f","i","x" >>
              /\ imageSuffix = << "-","f","e","a","t","u","r","e","-","l","o","g","i","n","-","f","i","x" >>

C6_Witness ==
    /\ Resolved /\ IsBranchRef /\ NoEnvironmentOverride
    /\ BranchName = << "B","." >>
    /\ environmentName = << "b","-" >>
    /\ imageSuffix = << "-","b","." >>

\* C7: with a non-empty master branch override and no environment name
\* override, a branch ref named 'main' or 'master' that differs from the
\* override is not production: is_production false, environment_name other
\* than 'production', image_suffix other than '-latest'.
C7_OverrideReplacesDefaults ==
    (pc # "start" /\ IsBranchRef /\ NoEnvironmentOverride
        /\ masterBranchOverride # << >>
        /\ BranchName \in { main, master } /\ BranchName # masterBranchOverride) =>
        /\ Resolved
        /\ isProduction = FALSE
        /\ environmentName # production
        /\ imageSuffix # << "-" >> \o latest

C7_Witness ==
    /\ Resolved /\ IsBranchRef /\ NoEnvironmentOverride
    /\ masterBranchOverride = release /\ BranchName = master
    /\ ~isProduction /\ environmentName = master

\* ------------------------------------------------- claims about the calls
\* the values published under an output name
OutputValues(name) == { outputs[k].value : k \in { j \in 1..Len(outputs) : outputs[j].name = name } }

\* the run ended without failure and published its final outputs
Published == pc = "done" /\ failed = << >> /\ OutputValues("image_suffix_clean") # {}

\* the i-th logged call is op and ended with status st
CallEnded(i, op, st) == calls[i].op = op /\ calls[i].status = st

\* C8: a 404 of the application lookup or of the environment lookup does not
\* fail the run: the existence flag is false, the next remote call is made,
\* a failure can only come from a later step (the login phase), and a run
\* that ends without failure has published the flag as 'false'.
C8_NotFoundIsNotFatal ==
    \A i \in 1..Len(calls) :
        /\ CallEnded(i, "getApplication", 404) =>
              /\ projectExists = FALSE
              /\ Len(calls) > i /\ calls[i + 1].op = "getEnvironment"
              /\ failed # << >> => /\ Len(calls) > i + 1
                                   /\ calls[Len(calls)].op \in { "getEcrLoginCredentials", "dockerLogin" }
              /\ pc = "done" /\ failed = << >> =>
                      Published /\ OutputValues("project_exists") = { false }
        /\ CallEnded(i, "getEnvironment", 404) =>
              /\ environmentExists = FALSE
              /\ Len(calls) > i /\ calls[i + 1].op = "getEcrLoginCredentials"
              /\ failed # << >> => calls[Len(calls)].op \in { "getEcrLoginCredentials", "dockerLogin" }
              /\ pc = "done" /\ failed = << >> =>
                      Published /\ OutputValues("environment_exists") = { false }

C8_Witness ==
    /\ Published
    /\ \E i \in 1..Len(calls) : CallEnded(i, "getApplication", 404)
    /\ \E i \in 1..Len(calls) : CallEnded(i, "getEnvironment", 404)
    /\ OutputValues("project_exists") = { false }
    /\ OutputValues("environment_exists") = { false }

\* the run failed at the i-th call and did nothing after it
FailedAtCall(i) ==
    /\ pc = "done"
    /\ Len(failed) = 1
    /\ Len(calls) = i
    /\ outputs = << >>

C10_EnvironmentSamePolicy ==
    \A i \in 1..Len(calls) :
        /\ CallEnded(i, "getEnvironment", 404) => environmentExists = FALSE /\ Len(calls) > i
        /\ (calls[i].op = "getEnvironment" /\ calls[i].status \in { 401, 403, 422 })
              => FailedAtCall(i)

\* the i-th logged call is op and has thrown (any status, response or not)
CallThrew(i, op) == calls[i].op = op /\ calls[i].status \notin { -1, 200 }

\* C11: when listApplications fails, for whatever reason, the run fails and
\* makes no later remote call, no docker login and publishes no output.
C11_ListFailureIsFatal ==
    \A i \in 1..Len(calls) :
        CallThrew(i, "listApplications") =>
            /\ i = 1
            /\ FailedAtCall(1)
            /\ failed[1].text = "Organization does not exist or is not accessible: "

C11_Witness ==
    /\ Len(calls) = 1
    /\ CallEnded(1, "listApplications", 404)
    /\ FailedAtCall(1)

\* the validation call of getEcrLoginCredentials is the second call of a run
ValidationCall == 2

ValidationEnded ==
    /\ Len(calls) >= ValidationCall
    /\ calls[ValidationCall].op = "getEcrLoginCredentials"
    /\ calls[ValidationCall].status # -1

\* the validation response arrived without a password
ValidationWithoutPassword ==
    /\ ValidationEnded /\ calls[ValidationCall].status = 200
    /\ (~calls[ValidationCall].data.present \/ ~Truthy(calls[ValidationCall].data.password))

\* the run went on after the validation call: a warning was emitted, the
\* application lookup was called, and a failure, if any, is a later step's
ValidationWasSoft ==
    /\ Len(warnings) >= 1
    /\ warnings[1].text \in { "Could not retrieve ECR credentials during validation: ",
                              "No Quant Cloud Image Registry credentials found during validation" }
    /\ Len(calls) > ValidationCall
    /\ calls[ValidationCall + 1].op = "getApplication"
    /\ failed # << >> => pc = "done" /\ calls[Len(calls)].status # -1

\* C12 (as stated): a failed credential retrieval during validation (a throw
\* with any status, or a response without password) only warns and the run
\* continues to the application lookup.
C12_ValidationFailureIsSoft ==
    (ValidationEnded /\ (CallThrew(ValidationCall, "getEcrLoginCredentials")
                            \/ ValidationWithoutPassword))
        => ValidationWasSoft

\* C12 (amended): a credential retrieval during validation that throws with a
\* status other than 401, 403 and 422 (or without a response), or answers
\* without a password, only warns and the run continues to the application
\* lookup; a throw with status 401, 403 or 422 fails the run.
C12_ValidationFailurePolicy ==
    /\ (ValidationEnded /\ CallThrew(ValidationCall, "getEcrLoginCredentials")
            /\ calls[ValidationCall].status \notin { 401, 403, 422 })
          => ValidationWasSoft
    /\ ValidationWithoutPassword => ValidationWasSoft
    /\ (ValidationEnded /\ calls[ValidationCall].status \in { 401, 403, 422 })
          => FailedAtCall(ValidationCall)

C12_Witness ==
    /\ ValidationEnded
    /\ calls[ValidationCall].status = 404
    /\ warnings[1].text = "Could not retrieve ECR credentials during validation: "
    /\ Published

\* the login call of getEcrLoginCredentials is the fifth call of a run
LoginCall == 5

LoginEnded ==
    /\ Len(calls) >= LoginCall
    /\ calls[LoginCall].op = "getEcrLoginCredentials"
    /\ calls[LoginCall].status # -1

\* the i-th call, a credential retrieval, gave no usable credentials: it
\* threw, or its response lacks the endpoint, the username or the password
NoCredentialsFrom(i) ==
    \/ calls[i].status # 200
    \/ ~calls[i].data.present
    \/ ~Truthy(calls[i].data.endpoint)
    \/ ~Truthy(calls[i].data.username)
    \/ ~Truthy(calls[i].data.password)

SkipRequested == skipDockerLoginInput = true

ApplicationAuthorizationFailure ==
    \E i \in 1..Len(calls) :
        calls[i].op = "getApplication" /\ calls[i].status \in { 401, 403, 422 }

\* the run ended, with login skipped and no retrieval giving credentials
EndedSkippedWithoutCredentials ==
    /\ pc = "done" /\ SkipRequested
    /\ Len(calls) >= 1 /\ CallEnded(1, "listApplications", 200)
    /\ ~ApplicationAuthorizationFailure
    /\ ValidationEnded /\ NoCredentialsFrom(ValidationCall)
    /\ LoginEnded => NoCredentialsFrom(LoginCall)

\* C13 (as stated): with skip_docker_login 'true', when no retrieval gives
\* credentials (each throws, whatever the status, or answers incompletely),
\* the run ends without failure and publishes its outputs, provided
\* listApplications succeeded and the application lookup was not an
\* authorization failure.
C13_SkipWithoutCredentials ==
    EndedSkippedWithoutCredentials => Published

\* C13 (amended): the same, provided also that the validation retrieval did
\* not throw with status 401, 403 or 422.
C13_SkipWithoutCredentialsUnlessUnauthorized ==
    (EndedSkippedWithoutCredentials /\ calls[ValidationCall].status \notin { 401, 403, 422 })
        => /\ Published
           /\ LoginEnded /\ Len(calls) = LoginCall
           /\ OutputValues("stripped_endpoint") = {}

C13_Witness ==
    /\ EndedSkippedWithoutCredentials
    /\ calls[ValidationCall].status = 0
    /\ LoginEnded /\ calls[LoginCall].status = 401
    /\ Published

DockerLoginInvoked == \E i \in 1..Len(calls) : calls[i].op = "dockerLogin"

\* C14: when skip_docker_login is not 'true' and the login-phase retrieval
\* gives no complete credentials (it throws, or endpoint, username or
\* password is missing), the run fails, docker login is never invoked and no
\* output is published.
C14_MissingCredentialsAreFatal ==
    (~SkipRequested /\ LoginEnded /\ NoCredentialsFrom(LoginCall)) =>
        /\ FailedAtCall(LoginCall)
        /\ failed[1].text = "Failed to retrieve Quant Cloud Image Registry credentials and login was not skipped"
        /\ ~DockerLoginInvoked

C14_Witness ==
    /\ ~SkipRequested /\ LoginEnded
    /\ calls[LoginCall].status = 200
    /\ Truthy(calls[LoginCall].data.password)
    /\ ~Truthy(calls[LoginCall].data.username)
    /\ FailedAtCall(LoginCall)

\* how many times an output name was published
Count(name) == Cardinality({ k \in 1..Len(outputs) : outputs[k].name = name })

SevenOutputNames == { "project_exists", "environment_exists", "quant_application",
                      "environment_name", "is_production", "image_suffix",
                      "image_suffix_clean" }

EndedWithoutFailure == pc = "done" /\ failed = << >>

\* C15 (as stated): a run that ends without failure has published exactly the
\* eight outputs, stripped_endpoint among them, each exactly once.
C15_EightOutputs ==
    EndedWithoutFailure =>
        /\ Len(outputs) = 8
        /\ \A n \in SevenOutputNames \cup { "stripped_endpoint" } : Count(n) = 1

\* C15 (amended): a run that ends without failure has published each of the
\* seven outputs other than stripped_endpoint exactly once and nothing else,
\* except stripped_endpoint, published exactly once when the login-phase
\* retrieval gave complete credentials and not at all otherwise.
C15_SevenOutputsAndEndpoint ==
    EndedWithoutFailure =>
        /\ \A n \in SevenOutputNames : Count(n) = 1
        /\ Count("stripped_endpoint") = IF NoCredentialsFrom(LoginCall) THEN 0 ELSE 1
        /\ Len(outputs) = 7 + Count("stripped_endpoint")

C15_Witness ==
    /\ EndedWithoutFailure
    /\ DockerLoginInvoked
    /\ Len(outputs) = 8 /\ Count("stripped_endpoint") = 1

\* the usernames and passwords the remote API returned in this run
ReturnedSecrets ==
    UNION { { calls[i].data.username, calls[i].data.password } :
              i \in { j \in 1..Len(calls) : calls[j].data.present } } \ { Null, << >> }

\* the value each output name is published with, given the inputs, the
\* statuses of the lookups, the names resolved before any credential was
\* retrieved, and the returned endpoint: not the returned username or password
PublicValue(name) ==
    CASE name = "project_exists"     -> BoolToString(calls[3].status = 200)
      [] name = "environment_exists" -> BoolToString(calls[4].status = 200)
      [] name = "quant_application"  -> calls[4].args[2]
      [] name = "environment_name"   -> calls[4].args[3]
      [] name = "is_production"      -> BoolToString(isProduction)
      [] name = "image_suffix"       -> imageSuffix
      [] name = "image_suffix_clean" -> stripLeadingDash(imageSuffix)
      [] name = "stripped_endpoint"  -> stripProtocol(calls[LoginCall].data.endpoint)

\* C16: no output has the registry username or password as its name or
\* value; every output is determined by the run's state other than the
\* returned username and password, stripped_endpoint by the returned endpoint
\* alone, so that another username or password with the same endpoint gives
\* the same outputs.
C16_CredentialsNotPublished ==
    \A k \in 1..Len(outputs) :
        /\ outputs[k].name \in SevenOutputNames \cup { "stripped_endpoint" }
        /\ outputs[k].value \notin ReturnedSecrets
        /\ outputs[k].value = PublicValue(outputs[k].name)

C16_Witness ==
    /\ Published /\ DockerLoginInvoked
    /\ calls[LoginCall].data.username = << "v" >>
    /\ calls[LoginCall].data.password = << "q" >>
    /\ OutputValues("stripped_endpoint") = { registry }

\* the context the run rejects, read off the inputs: a missing or empty ref or
\* repository, a ref with none of the three prefixes, or a refs/pull/ ref
\* without digits and a '/' after the prefix
RejectedContext ==
    \/ githubRef = Null \/ githubRef = << >>
    \/ githubRepository = Null \/ githubRepository = << >>
    \/ /\ ~StartsWith(githubRef, refsTags)
       /\ ~StartsWith(githubRef, refsPull)
       /\ ~StartsWith(githubRef, refsHeads)
    \/ /\ StartsWith(githubRef, refsPull)
       /\ ~\E n \in 1..Len(githubRef) : IsPullRefWithId(n)

\* C17: with a missing or empty GITHUB_REF or GITHUB_REPOSITORY, a ref with
\* an unknown prefix, or a refs/pull/ ref that does not match
\* refs/pull/<digits>/, the run fails, and at no point of the run is a remote
\* call or a docker login made
C17_RejectedContextMakesNoCall ==
    RejectedContext =>
        /\ calls = << >>
        /\ pc \in { "start", "done" }
        /\ pc = "done" => Len(failed) = 1

\* a run over refs/pull/42, digits with no '/' after them, has ended
C17_Witness ==
    /\ githubRef = refsPull \o << "4","2" >>
    /\ Truthy(githubRepository)
    /\ RejectedContext
    /\ pc = "done"
    /\ Len(failed) = 1

RemoteOperations == { "listApplications", "getEcrLoginCredentials", "getApplication",
                      "getEnvironment" }

\* the failure message a structured body message b is to be surfaced as
Surfaced(b) ==
    IF b = unableToFind
    THEN [ text |-> "Either the organization does not exist or you do not have access to it",
           arg |-> << >> ]
    ELSE [ text |-> "", arg |-> b ]

\* C18: when the remote call that fails the run threw an error that carries a
\* structured body message, the failure message of the run is that message
\* verbatim, or the organization-access text for 'Unable to find matching
\* result'.
C18_BodyMessageIsSurfaced ==
    \A i \in 1..Len(calls) :
        /\ calls[i].op \in RemoteOperations
        /\ calls[i].status \notin { -1, 200 }
        /\ calls[i].body # Null
        /\ FailedAtCall(i)
        => failed = << Surfaced(calls[i].body) >>

\* the calls of run() in program order: each is made by one statement
CallSites == << "listApplications", "getEcrLoginCredentials", "getApplication",
               "getEnvironment", "getEcrLoginCredentials", "dockerLogin" >>

\* how many times op has been invoked
Invocations(op) == Cardinality({ i \in 1..Len(calls) : calls[i].op = op })

\* C19 (as stated): once a remote operation has failed, that operation is
\* never invoked again in the run.
C19_FailedOperationNeverInvokedAgain ==
    \A i \in 1..Len(calls) : \A j \in 1..Len(calls) :
        /\ i < j
        /\ calls[i].op \in RemoteOperations
        /\ calls[i].status \notin { -1, 200 }
        => calls[j].op # calls[i].op

\* C19 (amended): no call is retried. The calls of a run are the call sites
\* in program order, each executed at most once: listApplications,
\* getApplication and getEnvironment are invoked at most once, and
\* getEcrLoginCredentials at most twice, as the validation step and as the
\* first step of the login phase; the login phase invokes it whether the
\* validation invocation succeeded or failed, and after a failed
\* listApplications, getApplication or getEnvironment the same operation is
\* never invoked again.
C19_EachCallSiteRunsOnce ==
    /\ Len(calls) <= Len(CallSites)
    /\ \A i \in 1..Len(calls) : calls[i].op = CallSites[i]
    /\ \A op \in RemoteOperations \ { "getEcrLoginCredentials" } : Invocations(op) <= 1
    /\ Invocations("getEcrLoginCredentials") <= 2
    /\ Len(calls) >= 4 /\ calls[4].status # -1 => Len(calls) >= LoginCall

\* the validation retrieval failed softly and the login phase has asked for
\* the credentials again
C19_Witness ==
    /\ Len(calls) >= LoginCall
    /\ CallThrew(ValidationCall, "getEcrLoginCredentials")
    /\ calls[LoginCall].op = "getEcrLoginCredentials"
    /\ calls[LoginCall].status = 200

\* C20 (as stated): after a successful classification the name is non-empty,
\* and a pull-request id is present exactly for a pull-request ref.
C20_NameNonEmpty ==
    Resolved =>
        /\ branch # << >>
        /\ prId # Null <=> StartsWith(githubRef, refsPull)

\* C20 (amended): after a successful classification a pull-request id is
\* present exactly for a pull-request ref, it is the non-empty run of digits
\* of the ref and the name is 'pr-<id>'; at most one of tag and pull request
\* is assigned; the name of a tag or branch ref is what follows the prefix,
\* and it is empty exactly for the refs 'refs/tags/' and 'refs/heads/',
\* which are accepted.
C20_NameAndIdAfterClassification ==
    Resolved =>
        /\ prId # Null <=> StartsWith(githubRef, refsPull)
        /\ isPr <=> prId # Null
        /\ ~(isTag /\ isPr)
        /\ prId # Null => /\ prId # << >>
                          /\ \E n \in 1..Len(githubRef) : IsPullRefWithId(n)
                          /\ branch = prDash \o prId
        /\ branch # Null
        /\ branch = << >> <=> githubRef \in { refsTags, refsHeads }

\* the ref 'refs/heads/' was classified as a branch with an empty name
C20_Witness ==
    /\ Resolved
    /\ githubRef = refsHeads
    /\ branch = << >>
    /\ ~isTag /\ ~isPr /\ prId = Null

\* C21: in every run that publishes outputs, image_suffix is '-' followed by
\* image_suffix_clean: the clean suffix is the suffix without exactly its
\* one leading '-', for every ref and every override.
C21_CleanSuffixRoundTrip ==
    Published =>
        /\ OutputValues("image_suffix") = { imageSuffix }
        /\ Cardinality(OutputValues("image_suffix_clean")) = 1
        /\ \A c \in OutputValues("image_suffix_clean") :
              /\ imageSuffix = << "-" >> \o c
              /\ c = SubSeq(imageSuffix, 2, Len(imageSuffix))

\* the tag '-a' was published with suffix '--a' and clean suffix '-a'
C21_Witness ==
    /\ Published
    /\ githubRef = refsTags \o << "-","a" >>
    /\ NoEnvironmentOverride
    /\ OutputValues("image_suffix") = { << "-","-","a" >> }
    /\ OutputValues("image_suffix_clean") = { << "-","a" >> }

\* C22: when skip_docker_login is 'true' the docker login command is never
\* invoked, with or without credentials; and when the login phase retrieved
\* complete credentials the run ends without failure and has published
\* stripped_endpoint, the returned endpoint without its protocol.
C22_SkipNeverInvokesDocker ==
    SkipRequested =>
        /\ ~DockerLoginInvoked
        /\ pc # "dockerLogin"
        /\ (LoginEnded /\ ~NoCredentialsFrom(LoginCall)) =>
              /\ EndedWithoutFailure
              /\ Count("stripped_endpoint") = 1
              /\ OutputValues("stripped_endpoint")
                    = { stripProtocol(calls[LoginCall].data.endpoint) }

\* login was skipped with credentials in hand, and the endpoint is published
C22_Witness ==
    /\ SkipRequested
    /\ LoginEnded /\ ~NoCredentialsFrom(LoginCall)
    /\ calls[LoginCall].data.endpoint = https \o registry
    /\ OutputValues("stripped_endpoint") = { registry }
    /\ ~DockerLoginInvoked

\* the password handed to the docker login command
PasswordOfLogin(i) == calls[i].args[3]

\* C23: in src/src/index.ts every docker login runs with its output
\* suppressed: no line of the run log carries the password that was passed
\* on the command line.
C23_PasswordNeverEchoed ==
    \A i \in 1..Len(calls) :
        calls[i].op = "dockerLogin" =>
            \A k \in 1..Len(log) : PasswordOfLogin(i) \notin Range(log[k].args)

\* C24: in src/src/index.ts, for every tag ref with no override, the
\* published environment_name is 'production' and is_production is 'true'.
C24_TagIsProductionIndex ==
    (/\ StartsWith(githubRef, refsTags)
     /\ masterBranchOverride = << >> /\ NoEnvironmentOverride
     /\ EndedWithoutFailure /\ outputs # << >>) =>
        /\ OutputValues("environment_name") = { production }
        /\ OutputValues("is_production") = { true }

DockerCall == 6

\* C25: the calls of a run occur in the fixed order listApplications,
\* getEcrLoginCredentials, getApplication, getEnvironment,
\* getEcrLoginCredentials, docker login, each starting only after the one
\* before it has returned or thrown; docker login is invoked at most once,
\* only after listApplications succeeded and getEnvironment completed, and
\* with the endpoint, username and password of the login-phase retrieval.
C25_FixedOrderOfCalls ==
    /\ Len(calls) <= DockerCall
    /\ \A i \in 1..Len(calls) :
          /\ calls[i].op = CallSites[i]
          /\ i < Len(calls) => calls[i].status # -1
    /\ Invocations("dockerLogin") <= 1
    /\ DockerLoginInvoked =>
          /\ Len(calls) = DockerCall
          /\ calls[1].status = 200
          /\ calls[4].status # -1
          /\ calls[LoginCall].status = 200
          /\ calls[DockerCall].args = << calls[LoginCall].data.endpoint,
                                         calls[LoginCall].data.username,
                                         calls[LoginCall].data.password >>

\* docker login ran with the credentials of the login-phase retrieval, which
\* differ from those the validation retrieval returned
C25_Witness ==
    /\ DockerLoginInvoked
    /\ calls[ValidationCall].data.username = << "u" >>
    /\ calls[LoginCall].data.username = << "v" >>
    /\ calls[DockerCall].args = << https \o registry, << "v" >>, << "q" >> >>
    /\ calls[DockerCall].status = 0

\* C26: no run both signals failure and publishes an output, in either
\* order (both logs only grow, so a state with both would remain), setFailed
\* is called at most once, and a failed docker login leaves no output
\* published, stripped_endpoint included.
C26_FailureOrOutputs ==
    /\ ~(failed # << >> /\ outputs # << >>)
    /\ Len(failed) <= 1
    /\ failed # << >> => pc = "done"
    /\ outputs # << >> => pc = "done"
    /\ \A i \in 1..Len(calls) :
          (calls[i].op = "dockerLogin" /\ calls[i].status \notin { -1, 0 }) =>
              /\ outputs = << >>
              /\ Len(failed) = 1

\* docker login exited with 1: the run failed and published nothing
C26_Witness ==
    /\ Len(calls) = DockerCall
    /\ CallEnded(DockerCall, "dockerLogin", 1)
    /\ pc = "done"
    /\ Len(failed) = 1
    /\ outputs = << >>

RequiredInputsPresent == Truthy(githubRef) /\ Truthy(githubRepository)

\* the run is over and has either signalled failure or published outputs,
\* not both and not neither
Terminal == pc = "done" /\ ((failed # << >>) # (outputs # << >>))

\* C27: when every remote call and the login command return or throw, every
\* run whose required inputs are present eventually reaches a terminal
\* state, failure signalled or outputs published, exactly one of the two,
\* and stays in it.
C27_RunTerminates == RequiredInputsPresent => <>[]Terminal

\* a run over present inputs ended with outputs after a not-found
\* application and a skipped login without credentials
C27_Witness ==
    /\ RequiredInputsPresent
    /\ Terminal
    /\ outputs # << >>
    /\ SkipRequested
    /\ Len(calls) = LoginCall /\ NoCredentialsFrom(LoginCall)

\* C28 (as stated): with no environment name override, for every ref and
\* every master branch override, environment_name is 'production' exactly
\* when is_production is true.
C28_ProductionNameIffProduction ==
    (Resolved /\ NoEnvironmentOverride) =>
        (environmentName = production <=> isProduction)

\* C28 (amended): with no environment name override, a tag ref has
\* environment_name 'production' and is_production true; a pull-request ref
\* never has environment_name 'production', whatever is_production is; for a
\* branch ref is_production true implies environment_name 'production', and
\* environment_name is 'production' with is_production false exactly when
\* the branch is outside the production set and its slug is 'production'.
C28_ProductionNameAndFlag ==
    (Resolved /\ NoEnvironmentOverride) =>
        /\ StartsWith(githubRef, refsTags) =>
              environmentName = production /\ isProduction
        /\ StartsWith(githubRef, refsPull) => environmentName # production
        /\ IsBranchRef =>
              /\ isProduction <=> BranchName \in ProductionBranchSet
              /\ isProduction => environmentName = production
              /\ (environmentName = production /\ ~isProduction)
                    <=> (BranchName \notin ProductionBranchSet
                            /\ SlugStrict(BranchName) = production)

\* the branch 'production' under the override 'release': the environment is
\* named 'production' and the run is not a production run
C28_Witness ==
    /\ Resolved /\ NoEnvironmentOverride
    /\ githubRef = refsHeads \o production
    /\ masterBranchOverride = release
    /\ environmentName = production
    /\ ~isProduction

NoOverrides == masterBranchOverride = << >> /\ environmentNameOverride = << >>

\* the environment name the run computes for ref with no override
EnvironmentNameOf(ref) ==
    LET c == ClassifyRef(ref)
    IN  generateEnvironmentName(c.branch, << >>, << >>, c.isTag, c.isPr, c.prId)

IsFeatureRef(ref) == StartsWith(ref, refsHeads \o featureSlash)

\* C29: with no overrides, the environment name of a pull-request ref is
\* computed for no accepted ref of another kind and for no pull-request ref
\* with another id, and two different feature branches never get the same
\* environment name.
C29_UniqueEnvironments ==
    (Resolved /\ NoOverrides) =>
        \A other \in ResolverRefs :
            ClassifyRef(other).ok =>
                /\ (isPr /\ (~ClassifyRef(other).isPr \/ ClassifyRef(other).prId # prId))
                      => EnvironmentNameOf(other) # environmentName
                /\ (IsFeatureRef(githubRef) /\ IsFeatureRef(other) /\ other # githubRef)
                      => EnvironmentNameOf(other) # environmentName

\* the part of GITHUB_REPOSITORY between its first '/' and the next one
SegmentAfterFirstSlash ==
    LET i    == IndexOf(githubRepository, << "/" >>)
        rest == SubSeq(githubRepository, i + 1, Len(githubRepository))
        j    == IndexOf(rest, << "/" >>)
    IN  IF j = 0 THEN rest ELSE SubSeq(rest, 1, j - 1)

\* C30: the application name is the quant_application input when it is
\* non-empty and otherwise the segment of GITHUB_REPOSITORY after its first
\* '/'; in every run that makes a remote call, the name passed to
\* getApplication and getEnvironment and published as quant_application is
\* a defined, non-empty string, whatever non-empty GITHUB_REPOSITORY is.
C30_ApplicationNameDefined ==
    calls # << >> =>
        /\ Truthy(applicationOverride) => applicationName = applicationOverride
        /\ (~Truthy(applicationOverride) /\ IndexOf(githubRepository, << "/" >>) # 0)
              => applicationName = SegmentAfterFirstSlash
        /\ Truthy(applicationName)
        /\ \A i \in 1..Len(calls) :
              calls[i].op \in { "getApplication", "getEnvironment" }
                  => calls[i].args[2] = applicationName
        /\ \A v \in OutputValues("quant_application") : v = applicationName

====
